---- MODULE Spec2Model ----
(***************************************************************************)
(* VariableSizedBox<T> (src/src/vsb.rs): a heap block of `size` bytes,     *)
(* aligned for T, owned through the raw pointer `data`.  The model keeps   *)
(* the box's fields, the allocator's own record of the live blocks (base,  *)
(* size, alignment, bytes) and the outcome of the last slice call.         *)
(* usize/isize are PtrBits wide, so that saturating_mul, wrapping_add, the *)
(* `as isize` casts and the overflow checks behave as in the code.         *)
(***************************************************************************)
EXTENDS Integers, Sequences, FiniteSets, TLC

\* ------------------------------------------------------------- bounds
\* width of usize / isize / pointers, in bits
PtrBits == 4
\* log2 of the largest alignment of T that is tried
MaxAlignLog == 2
\* largest byte count requested where the bytes of the block are followed
MaxBytes == 3
\* largest byte count requested where a resize is followed by a slice call
MaxSize == 4
\* largest size_of::<U>() of a slice element after a resize
MaxElem == 2
\* largest element count asked for after a resize (usize::MAX is asked too)
MaxCount == 4

RECURSIVE Pow2(_)
Pow2(n) == IF n = 0 THEN 1 ELSE 2 * Pow2(n - 1)

UsizeMod == Pow2(PtrBits)
UsizeMax == UsizeMod - 1
IsizeMax == Pow2(PtrBits - 1) - 1
IsizeMin == -IsizeMax - 1

Min(a, b) == IF a < b THEN a ELSE b
Max(a, b) == IF a < b THEN b ELSE a

\* the values a byte can hold
Byte == {0, 1}
\* align_of::<T>() is a power of two
Aligns == {Pow2(k) : k \in 0..MaxAlignLog}

VARIABLES
    align,           \* align_of::<T>()
    phase,           \* "none" | "live" | "dropped" | "aborted"
    data,            \* self.data, an address (0 is null)
    size,            \* self.size
    heap,            \* the allocator's live blocks
    badFree,         \* realloc/dealloc was handed a pointer that is not a live block
    badLayout,       \* realloc/dealloc was handed a layout other than the block's
    last,            \* the last operation on the allocation
    ret              \* the outcome of the slice call in progress

vars == <<align, phase, data, size, heap, badFree, badLayout, last, ret>>

NoRet == [op |-> "none", off |-> 0, n |-> 0, s |-> 0, checks |-> FALSE,
          out |-> "none", len |-> 0, start |-> 0]
NoOp == [op |-> "none", n |-> 0, from |-> 0, moved |-> FALSE]

\* ---------------------------------------------------------- allocator
\* Layout::from_size_align(n, a): a is a power of two and n, rounded up to a
\* multiple of a, does not exceed isize::MAX
RoundUp(n, a) == ((n + a - 1) \div a) * a
LayoutOk(n, a) == RoundUp(n, a) <= IsizeMax

\* the block of the allocator that starts at p
Live(p) == {b \in heap : b.base = p}
Block(p) == CHOOSE b \in heap : b.base = p

Overlaps(a, n, b) == a < b.base + b.size /\ b.base < a + n

\* where the allocator may put n bytes aligned to a, given the blocks `held`:
\* any aligned, non-null place that does not run past the end of the
\* address space and overlaps no live block
Place(n, a, held) ==
    {p \in 1..UsizeMax :
        /\ p % a = 0
        /\ p + n <= UsizeMax
        /\ \A b \in held : ~Overlaps(p, n, b)}

\* alloc / alloc_zeroed: null (0) or a place.  A request of no bytes is
\* outside the allocator's contract; the heap that answers it hands out a
\* block of no bytes, as it does here
AllocResult(n, a) == {0} \cup Place(n, a, heap)

\* realloc: null or a place, the block being resized counting as free; a new
\* size the layout rules exclude cannot be satisfied
ReallocResult(p, m, a) ==
    IF LayoutOk(m, a) THEN {0} \cup Place(m, a, heap \ Live(p)) ELSE {0}

\* all sequences of length n over G
Fill(G, n) == [1..n -> G]

ZeroBytes(n) == [i \in 1..n |-> 0]

\* the contents alloc may hand out: every byte holds any value of G
AllocBytes(G, n) == Fill(G, n)

\* what alloc would hand out in place of alloc_zeroed
AllocUninitBytes(n) == Fill(Byte, n)
\* the contents alloc_zeroed hands out
AllocZeroedBytes(n) == {ZeroBytes(n)}

\* a block that is replaced and not copied
ReallocFresh(old, m, tail) == [i \in 1..m |-> 0]

\* the bytes of the block realloc returns: the old bytes up to the smaller of
\* the two sizes, then whatever `tail` holds
ReallocBytes(old, m, tail) ==
    [i \in 1..m |-> IF i <= Len(old) THEN old[i] ELSE tail[i - Len(old)]]

\* the checks of the allocator's contract, as flags
FreeOk(p) == Live(p) # {}
LayoutMatches(p, n, a) == \A b \in Live(p) : b.size = n /\ b.align = a

Aborted ==
    /\ phase' = "aborted"
    /\ data' = 0
    /\ size' = 0
    /\ heap' = {}
    /\ last' = NoOp
    /\ ret' = NoRet
    /\ UNCHANGED <<align, badFree, badLayout>>

\* ------------------------------------------------------------ the box
Init ==
    /\ align \in Aligns
    /\ phase = "none"
    /\ data = 0
    /\ size = 0
    /\ heap = {}
    /\ badFree = FALSE
    /\ badLayout = FALSE
    /\ last = NoOp
    /\ ret = NoRet

Constructed(n, p, bytes, op) ==
    /\ phase' = "live"
    /\ data' = p
    /\ size' = n
    /\ heap' = heap \cup {[base |-> p, size |-> n, align |-> align, bytes |-> bytes]}
    /\ last' = [op |-> op, n |-> n, from |-> n, moved |-> FALSE]
    /\ UNCHANGED <<align, badFree, badLayout, ret>>

\* VariableSizedBox::new(size): the requested sizes are S, an uninitialised
\* byte holds any value of G
New(S, G) ==
    /\ phase \in {"none", "dropped"}
    /\ \E n \in S : \E p \in AllocResult(n, align) : \E bytes \in AllocBytes(G, n) :
          IF ~LayoutOk(n, align) THEN UNCHANGED vars
          ELSE IF p = 0 THEN Aborted
          ELSE Constructed(n, p, bytes, "new")

\* VariableSizedBox::zeroed(size)
Zeroed(S) ==
    /\ phase \in {"none", "dropped"}
    /\ \E n \in S : \E p \in AllocResult(n, align) : \E bytes \in AllocZeroedBytes(n) :
          IF ~LayoutOk(n, align) THEN UNCHANGED vars
          ELSE IF p = 0 THEN Aborted
          ELSE Constructed(n, p, bytes, "zeroed")

\* as_ptr / as_mut_ptr and len
as_ptr == data
len == size

\* the bytes at as_ptr()
Mem == IF Live(data) = {} THEN <<>> ELSE Block(data).bytes

\* a resize that keeps the pointer / the size it had
ResizeDataStale(old, new) == old
ResizeSizeStale(old, new) == old
\* self.data = data.cast() and self.size = size
ResizeData(old, new) == new
ResizeSize(old, new) == new
\* a layout that leaves the alignment of T out
ResizeLayoutUnaligned == [size |-> size, align |-> 1]
\* the layout resize hands to realloc
ResizeLayout == [size |-> size, align |-> align]

\* VariableSizedBox::resize(size)
Resize(S, G) ==
    /\ phase = "live"
    /\ ret = NoRet
    /\ \E m \in S : \E p \in ReallocResult(data, m, ResizeLayout.align) :
       \E tail \in Fill(G, Max(m - Len(Mem), 0)) :
          IF ~LayoutOk(ResizeLayout.size, ResizeLayout.align) \/ p = 0 THEN Aborted
          ELSE
            /\ badFree' = (badFree \/ ~FreeOk(data))
            /\ badLayout' = (badLayout \/ ~LayoutMatches(data, ResizeLayout.size, ResizeLayout.align))
            /\ heap' = (heap \ Live(data)) \cup
                  {[base |-> p, size |-> m, align |-> ResizeLayout.align,
                    bytes |-> ReallocBytes(Mem, m, tail)]}
            /\ data' = ResizeData(data, p)
            /\ size' = ResizeSize(size, m)
            /\ last' = [op |-> "resize", n |-> m, from |-> size, moved |-> (p # data)]
            /\ UNCHANGED <<align, phase, ret>>

\* a caller stores v at as_mut_ptr() + i
Write ==
    /\ phase = "live"
    /\ ret = NoRet
    /\ FreeOk(data)
    /\ \E i \in 1..Len(Mem) : \E v \in Byte :
          /\ heap' = (heap \ Live(data)) \cup
                {[Block(data) EXCEPT !.bytes = [Mem EXCEPT ![i] = v]]}
          /\ last' = [op |-> "write", n |-> size, from |-> size, moved |-> last.moved]
    /\ UNCHANGED <<align, phase, data, size, badFree, badLayout, ret>>

\* a layout made of the size the box had before its last resize
DropLayoutStale == [size |-> last.from, align |-> align]
\* the layout drop hands to dealloc
DropLayout == [size |-> size, align |-> align]

\* Drop for VariableSizedBox: at the end of the scope, or while a panic of a
\* slice call unwinds
Drop ==
    /\ phase = "live"
    /\ ret.out # "ok"
    /\ IF ~LayoutOk(DropLayout.size, DropLayout.align) THEN Aborted
       ELSE
         /\ badFree' = (badFree \/ ~FreeOk(data))
         /\ badLayout' = (badLayout \/ ~LayoutMatches(data, DropLayout.size, DropLayout.align))
         /\ heap' = heap \ Live(data)
         /\ phase' = "dropped"
         /\ data' = 0
         /\ size' = 0
         /\ last' = [op |-> "drop", n |-> 0, from |-> size, moved |-> last.moved]
         /\ ret' = NoRet
         /\ UNCHANGED <<align>>

\* --------------------------------------------------------- the slices
\* `x as isize`
ToIsize(x) == IF x > IsizeMax THEN x - UsizeMod ELSE x
\* an isize result that overflowed, wrapped
WrapIsize(d) == ((d - IsizeMin) % UsizeMod) + IsizeMin

Panic == [out |-> "panic", len |-> 0, start |-> 0]

\* sanitize_ptr: `o as isize - self.data as isize` panics on overflow when the
\* build checks it and wraps otherwise; the result is data offset by it
sanitize_ptr(o, overflow_checks) ==
    LET d == ToIsize(o) - ToIsize(data)
    IN  IF overflow_checks /\ (d < IsizeMin \/ d > IsizeMax)
        THEN [panic |-> TRUE, ptr |-> 0]
        ELSE [panic |-> FALSE, ptr |-> (data + WrapIsize(d)) % UsizeMod]

\* sanitize_mut_ptr
sanitize_mut_ptr(o, overflow_checks) ==
    LET d == ToIsize(o) - ToIsize(data)
    IN  IF overflow_checks /\ (d < IsizeMin \/ d > IsizeMax)
        THEN [panic |-> TRUE, ptr |-> 0]
        ELSE [panic |-> FALSE, ptr |-> (data + WrapIsize(d)) % UsizeMod]

\* usize::saturating_mul
saturating_mul(a, b) == IF a * b > UsizeMax THEN UsizeMax ELSE a * b

\* <*const U>::wrapping_add(count), with s = size_of::<U>()
wrapping_add(p, count, s) == (p + count * s) % UsizeMod

\* a - b in usize: panics on overflow when the build checks it, wraps otherwise
usize_sub(a, b, overflow_checks) ==
    IF a < b /\ overflow_checks THEN [panic |-> TRUE, val |-> 0]
    ELSE [panic |-> FALSE, val |-> (a - b) % UsizeMod]

\* slice_from_count(o, count) for U of size s: the three assertions, then
\* from_raw_parts(ptr, count)
slice_from_count(o, count, s, overflow_checks) ==
    LET p == sanitize_ptr(o, overflow_checks)
    IN  IF p.panic THEN Panic
        ELSE IF ~(p.ptr >= data) THEN Panic
        ELSE IF ~(saturating_mul(count, s) <= size) THEN Panic
        ELSE IF ~(wrapping_add(p.ptr, count, s) <= data + size) THEN Panic
        ELSE [out |-> "ok", len |-> count, start |-> p.ptr]

\* slice_from_count_mut
slice_from_count_mut(o, count, s, overflow_checks) ==
    LET p == sanitize_mut_ptr(o, overflow_checks)
    IN  IF p.panic THEN Panic
        ELSE IF ~(p.ptr >= data) THEN Panic
        ELSE IF ~(saturating_mul(count, s) <= size) THEN Panic
        ELSE IF ~(wrapping_add(p.ptr, count, s) <= data + size) THEN Panic
        ELSE [out |-> "ok", len |-> count, start |-> p.ptr]

\* slice_from_bytes and slice_from_bytes_mut
slice_from_bytes(o, bytes, s, overflow_checks) ==
    slice_from_count(o, bytes \div s, s, overflow_checks)
slice_from_bytes_mut(o, bytes, s, overflow_checks) ==
    slice_from_count_mut(o, bytes \div s, s, overflow_checks)

\* slice_from_total_bytes: total_bytes - (o as usize - self.data as usize)
slice_from_total_bytes(o, total_bytes, s, overflow_checks) ==
    LET off == usize_sub(o, data, overflow_checks)
        bytes == usize_sub(total_bytes, off.val, overflow_checks)
    IN  IF off.panic \/ bytes.panic THEN Panic
        ELSE slice_from_bytes(o, bytes.val, s, overflow_checks)

\* slice_from_total_bytes_mut
slice_from_total_bytes_mut(o, total_bytes, s, overflow_checks) ==
    LET off == usize_sub(o, data, overflow_checks)
        bytes == usize_sub(total_bytes, off.val, overflow_checks)
    IN  IF off.panic \/ bytes.panic THEN Panic
        ELSE slice_from_bytes_mut(o, bytes.val, s, overflow_checks)

\* a slice call on a live box with a pointer to the field at offset off: the
\* call, its arguments and what came of it
Call(op, off, n, s, overflow_checks, r) ==
    /\ ret' = [op |-> op, off |-> off, n |-> n, s |-> s, checks |-> overflow_checks,
               out |-> r.out, len |-> r.len, start |-> r.start]
    /\ UNCHANGED <<align, phase, data, size, heap, badFree, badLayout, last>>

\* the calls: n ranges over N, size_of::<U>() over E; the build either checks
\* arithmetic overflow (debug) or lets it wrap (release)
SliceFromCount(N, E) ==
    /\ phase = "live" /\ ret = NoRet
    /\ \E off \in 0..size : \E n \in N : \E s \in E : \E chk \in BOOLEAN :
          Call("count", off, n, s, chk, slice_from_count(data + off, n, s, chk))

SliceFromCountMut(N, E) ==
    /\ phase = "live" /\ ret = NoRet
    /\ \E off \in 0..size : \E n \in N : \E s \in E : \E chk \in BOOLEAN :
          Call("count_mut", off, n, s, chk, slice_from_count_mut(data + off, n, s, chk))

SliceFromBytes(N, E) ==
    /\ phase = "live" /\ ret = NoRet
    /\ \E off \in 0..size : \E n \in N : \E s \in E : \E chk \in BOOLEAN :
          Call("bytes", off, n, s, chk, slice_from_bytes(data + off, n, s, chk))

SliceFromBytesMut(N, E) ==
    /\ phase = "live" /\ ret = NoRet
    /\ \E off \in 0..size : \E n \in N : \E s \in E : \E chk \in BOOLEAN :
          Call("bytes_mut", off, n, s, chk, slice_from_bytes_mut(data + off, n, s, chk))

SliceFromTotalBytes(N, E) ==
    /\ phase = "live" /\ ret = NoRet
    /\ \E off \in 0..size : \E n \in N : \E s \in E : \E chk \in BOOLEAN :
          Call("total", off, n, s, chk, slice_from_total_bytes(data + off, n, s, chk))

SliceFromTotalBytesMut(N, E) ==
    /\ phase = "live" /\ ret = NoRet
    /\ \E off \in 0..size : \E n \in N : \E s \in E : \E chk \in BOOLEAN :
          Call("total_mut", off, n, s, chk, slice_from_total_bytes_mut(data + off, n, s, chk))

\* the borrow of a returned slice ends
Release ==
    /\ ret.out = "ok"
    /\ ret' = NoRet
    /\ UNCHANGED <<align, phase, data, size, heap, badFree, badLayout, last>>

\* ------------------------------------------------------ specifications
\* the allocation and its bytes
Next ==
    \/ New(0..MaxBytes, Byte)
    \/ Zeroed(0..MaxBytes)
    \/ Resize(0..MaxBytes, Byte)
    \/ Write
    \/ Drop

Spec == Init /\ [][Next]_vars

\* a resize followed by slice_from_count
NextShrink ==
    \/ New(0..MaxSize, {0})
    \/ Zeroed(0..MaxSize)
    \/ Resize(0..MaxSize, {0})
    \/ SliceFromCount((0..MaxCount) \cup {UsizeMax}, 1..MaxElem)
    \/ SliceFromCountMut((0..MaxCount) \cup {UsizeMax}, 1..MaxElem)
    \/ Release
    \/ Drop

SpecShrink == Init /\ [][NextShrink]_vars

\* the slice functions on every box that can be constructed, for every field
\* offset, every usize argument and every element size
NextSlice ==
    \/ New(0..IsizeMax, {0})
    \/ Zeroed(0..IsizeMax)
    \/ SliceFromCount(0..UsizeMax, 1..IsizeMax)
    \/ SliceFromCountMut(0..UsizeMax, 1..IsizeMax)
    \/ SliceFromBytes(0..UsizeMax, 1..IsizeMax)
    \/ SliceFromBytesMut(0..UsizeMax, 1..IsizeMax)
    \/ SliceFromTotalBytes(0..UsizeMax, 1..IsizeMax)
    \/ SliceFromTotalBytesMut(0..UsizeMax, 1..IsizeMax)
    \/ Release
    \/ Drop

SpecSlice == Init /\ [][NextSlice]_vars

\* --------------------------------------------------------------- claims
CountOps == {"count", "count_mut"}
TotalOps == {"total", "total_mut"}

\* C1: slice_from_count / slice_from_count_mut on a field at offset off panic
\* exactly when off + count * size_of(U) > size (also when count * size_of(U)
\* overflows usize), and otherwise return exactly count elements.
C1_CountBounds ==
    ret.op \in CountOps =>
        /\ (ret.out = "panic") <=> (ret.off + ret.n * ret.s > size)
        /\ ret.out = "ok" => ret.len = ret.n

\* C2: while the box lives, the allocator holds exactly one block, it starts
\* at data, its length is len(), and the layouts resize and drop hand to
\* realloc and dealloc are the (size, alignment) the allocator recorded for
\* it; no realloc or dealloc was ever handed another layout.
C2_SizeIsBlockLength ==
    /\ ~badLayout
    /\ phase = "live" =>
          /\ heap = Live(data)
          /\ Cardinality(heap) = 1
          /\ \A b \in heap :
                /\ b.size = len
                /\ Len(b.bytes) = len
                /\ ResizeLayout = [size |-> b.size, align |-> b.align]
                /\ DropLayout = [size |-> b.size, align |-> b.align]

\* C2 witness: a live box after a resize that changed its size and moved it
C2_Witness ==
    /\ phase = "live"
    /\ last.op = "resize"
    /\ last.moved
    /\ last.from # last.n
    /\ \E b \in heap : b.base = data /\ b.size = last.n

\* C3: slice_from_total_bytes / slice_from_total_bytes_mut with total_bytes
\* below the offset of the field always panic.
C3_TotalUnderflowFatal ==
    (ret.op \in TotalOps /\ ret.n < ret.off) => ret.out = "panic"

\* C4: no pointer is released twice and nothing leaks: realloc and dealloc
\* are only handed live blocks, a live box owns the only live block, and once
\* the box is dropped (or before one is constructed) no block is live.
C4_ReleasedExactlyOnce ==
    /\ ~badFree
    /\ Cardinality(heap) <= 1
    /\ phase = "live" => Live(data) = heap /\ heap # {}
    /\ phase \in {"none", "dropped"} => heap = {}

\* C4 witness: a box dropped after a resize that relocated its block
C4_Witness ==
    /\ phase = "dropped"
    /\ last.op = "drop"
    /\ last.moved
    /\ heap = {}

\* C5: after resize(m), len() is m and slice_from_count / slice_from_count_mut
\* asking for more than m bytes panic, whatever size the box had before.
C5_BoundsFollowResize ==
    (phase = "live" /\ last.op = "resize") =>
        /\ len = last.n
        /\ (ret.op \in CountOps /\ ret.n * ret.s > last.n) => ret.out = "panic"

\* C5 witness: constructed with 4 bytes, resized to 2; two 2-byte elements
\* at offset 0 fit the old size, not the new one, and the call panics
C5_Witness ==
    /\ phase = "live"
    /\ last.op = "resize"
    /\ last.from = 4
    /\ last.n = 2
    /\ len = 2
    /\ ret.op = "count"
    /\ ret.off = 0
    /\ ret.n = 2
    /\ ret.s = 2
    /\ ret.out = "panic"

\* C6: a resize leaves the bytes below the smaller of the old and the new
\* size as they were, whether or not the block moves.
C6_ResizeKeepsPrefix ==
    [][(phase = "live" /\ phase' = "live" /\ last'.op = "resize") =>
          /\ Len(Mem') = last'.n
          /\ \A i \in 1..Min(Len(Mem), Len(Mem')) : Mem'[i] = Mem[i]]_vars

\* C6 witness: a block that a resize moved and shrank, with a pattern in the
\* bytes it kept
C6_Witness ==
    /\ phase = "live"
    /\ last.op = "resize"
    /\ last.moved
    /\ last.from > last.n
    /\ last.n >= 2
    /\ Mem[1] = 1
    /\ Mem[2] = 0

\* C7: right after zeroed(n), len() is n and each of the n bytes is zero.
C7_ZeroedRoundTrip ==
    last.op = "zeroed" =>
        /\ phase = "live"
        /\ len = last.n
        /\ Len(Mem) = last.n
        /\ \A i \in 1..last.n : Mem[i] = 0

\* C7 witness: zeroed(MaxBytes)
C7_Witness ==
    /\ last.op = "zeroed"
    /\ last.n = MaxBytes
    /\ len = MaxBytes
    /\ Len(Mem) = MaxBytes

\* C8: the size of a constructed box is greater than 0.
C8_SizePositive == phase = "live" => size > 0

\* C9: as_ptr() is a multiple of align_of(T), and the allocator holds the
\* block under that alignment, after construction and after every resize.
C9_Aligned ==
    phase = "live" =>
        /\ as_ptr # 0
        /\ as_ptr % align = 0
        /\ \A b \in Live(data) : b.align = align
        /\ ResizeLayout.align = align
        /\ DropLayout.align = align

\* C9 witness: a box of the strictest alignment after a resize that moved it
C9_Witness ==
    /\ phase = "live"
    /\ align = Pow2(MaxAlignLog)
    /\ last.op = "resize"
    /\ last.moved
    /\ as_ptr % align = 0

\* C10: for off <= total_bytes <= size, slice_from_total_bytes returns the
\* slice at the field with (total_bytes - off) \div size_of(U) elements, as
\* slice_from_bytes does for total_bytes - off bytes and slice_from_count for
\* that many elements.
C10_TotalBytesSlice ==
    (ret.op = "total" /\ ret.off <= ret.n /\ ret.n <= size) =>
        /\ ret.out = "ok"
        /\ ret.len = (ret.n - ret.off) \div ret.s
        /\ ret.start = data + ret.off
        /\ slice_from_bytes(data + ret.off, ret.n - ret.off, ret.s, ret.checks).out = "ok"
        /\ slice_from_bytes(data + ret.off, ret.n - ret.off, ret.s, ret.checks).len = ret.len
        /\ slice_from_count(data + ret.off, (ret.n - ret.off) \div ret.s, ret.s, ret.checks).out = "ok"
        /\ slice_from_count(data + ret.off, (ret.n - ret.off) \div ret.s, ret.s, ret.checks).len = ret.len
====
